---- MODULE Spec2Model ----
(***************************************************************************)
(* Model of bb_multimesh_showcase (python/bb_multimesh_showcase/main.py).  *)
(*                                                                         *)
(* The program is a set of GUI handlers that mutate the host scene graph.  *)
(* The scene is modelled as a function from node names to node records;    *)
(* every handler is one action that threads the host state through the     *)
(* statements of the handler in the order the code executes them.  The     *)
(* user's own steps (selecting, typing into a field, closing the showcase  *)
(* window) are actions of their own.                                       *)
(*                                                                         *)
(* Representation                                                          *)
(*  - node names are the strings the code builds; the wildcard patterns of *)
(*    cmds.ls are matched character by character, case sensitively;       *)
(*  - bounding boxes are integers in scene units;                          *)
(*  - translations are in tenths of a scene unit (1.1*w is 11*w, 0.7*h is  *)
(*    7*h), rotations in degrees;                                          *)
(*  - scale factors are in hundredths (0.5 is 50), so value/50.0 is        *)
(*    2*value and int(scale*50) is scale100 \div 2;                        *)
(*  - float('inf') is the record [inf |-> 1, v |-> 0], finite x is         *)
(*    [inf |-> 0, v |-> x];                                                *)
(*  - a text field holds the number its text reads as: int(text) for the   *)
(*    number of copies, float(text) in hundredths for the scale.           *)
(* Attributes no handler ever reads back (circle radius, override colour)  *)
(* and the contents of the showcase model panel are not represented.       *)
(***************************************************************************)
EXTENDS Integers, Sequences, FiniteSets, TLC

VARIABLES scene, selection, windows,
          num_copies_field, num_copies_enabled, scale_field,
          showcase_checkbox, scale_slider,
          checkedIsInt, lastOp, call, lastSuccess

vars == <<scene, selection, windows, num_copies_field, num_copies_enabled,
          scale_field, showcase_checkbox, scale_slider, checkedIsInt,
          lastOp, call, lastSuccess>>

(***************************************************************************)
(* Bounds of the model                                                     *)
(***************************************************************************)
\* the largest number of copies typed into the field (above the threshold)
LargeCopies == 11
\* the largest coordinate of a source bounding box in SpecBBox
MaxCoord == 1

(***************************************************************************)
(* Program constants                                                       *)
(***************************************************************************)
ConfirmThreshold == 10
ShowcaseCopies == 4
SliderMin == 1
SliderMax == 150
SliderInit == 50
SliderDivisor == 50

(***************************************************************************)
(* Names and wildcard patterns                                             *)
(***************************************************************************)
NoNode == ""

\* "{:02d}".format(n) for n >= 0
Fmt02(n) == IF n < 10 THEN "0" \o ToString(n) ELSE ToString(n)

\* "BB_Duplicate_Mesh_{:02d}".format(i+1)
GroupName(i) == "BB_Duplicate_Mesh_" \o Fmt02(i + 1)

\* the position of the first occurrence of part in s at or after from and
\* ending at or before to; 0 when there is none
RECURSIVE Find(_, _, _, _)
Find(s, part, from, to) ==
    IF from + Len(part) - 1 > to THEN 0
    ELSE IF SubSeq(s, from, from + Len(part) - 1) = part THEN from
    ELSE Find(s, part, from + 1, to)

\* s.split(sep) for a one-character sep
RECURSIVE Split(_, _)
Split(s, sep) ==
    LET k == Find(s, sep, 1, Len(s))
    IN IF k = 0 THEN <<s>>
       ELSE <<SubSeq(s, 1, k - 1)>> \o Split(SubSeq(s, k + 1, Len(s)), sep)

\* mesh.split(":")[-1]
SplitLast(name) == LET parts == Split(name, ":") IN parts[Len(parts)]

\* "dup_" + mesh_name + "_{:02d}".format(i+1)
DupName(mesh_name, i) == "dup_" \o mesh_name \o "_" \o Fmt02(i + 1)

\* group_node + "_BS"
BlendName(group_node) == group_node \o "_BS"

\* group_node + "_ctrl"
CtrlName(group_node) == group_node \o "_ctrl"

ParentGroupName == "BB_Duplicates_Grp"
ShowcaseGroupName == "BB_Duplicate_Showcase_Grp"
CameraName == "renderCam"

\* the literal parts between the first and the last, found left to right
\* in s[from..to] without overlap
RECURSIVE GlobMiddle(_, _, _, _)
GlobMiddle(parts, s, from, to) ==
    IF parts = <<>> THEN TRUE
    ELSE LET k == Find(s, Head(parts), from, to)
         IN k # 0 /\ GlobMiddle(Tail(parts), s, k + Len(Head(parts)), to)

\* wildcard match of cmds.ls on a node name: "*" stands for any run of
\* characters, every other character for itself (case sensitive); parts
\* is the pattern split at its "*"
Glob(parts, name) ==
    LET first == parts[1]
        last == parts[Len(parts)]
    IN IF Len(parts) = 1 THEN name = first
       ELSE /\ Len(name) >= Len(first) + Len(last)
            /\ SubSeq(name, 1, Len(first)) = first
            /\ SubSeq(name, Len(name) - Len(last) + 1, Len(name)) = last
            /\ GlobMiddle(SubSeq(parts, 2, Len(parts) - 1), name,
                          Len(first) + 1, Len(name) - Len(last))

\* the patterns of remove_duplicates and on_scale_changed
DupPattern == Split("*BB_Duplicate_Mesh*dup*", "*")
CtrlPattern == Split("*BB_Duplicate_Mesh*ctrl*", "*")
BsPattern == Split("*BB_Duplicate_Mesh*bs*", "*")

(***************************************************************************)
(* Scene nodes                                                             *)
(***************************************************************************)
Zero3 == <<0, 0, 0>>
One3 == <<100, 100, 100>>

\* a DAG or DG node: type, DAG parent, translate, rotate, scale, world
\* bounding box (geometry shapes), blend-shape target / deformed geometry /
\* target weight (blendShape nodes), constraint driver (transforms)
Node(type, parent) ==
    [type |-> type, parent |-> parent, t |-> Zero3, r |-> Zero3, s |-> One3,
     bbox |-> <<>>, target |-> NoNode, geo |-> NoNode, w |-> 0,
     driver |-> NoNode]

ShapeTypes == {"mesh", "nurbsSurface", "nurbsCurve", "camera", "locator"}

RECURSIVE IsUnder(_, _, _)
\* x is n or a DAG descendant of n
IsUnder(sc, x, n) ==
    \/ x = n
    \/ /\ x \in DOMAIN sc
       /\ sc[x].parent # NoNode
       /\ IsUnder(sc, sc[x].parent, n)

RECURSIVE UnderAny(_, _, _)
\* x is one of nodes or a DAG descendant of one of them
UnderAny(sc, x, nodes) ==
    \/ x \in nodes
    \/ /\ x \in DOMAIN sc
       /\ sc[x].parent # NoNode
       /\ UnderAny(sc, sc[x].parent, nodes)

Children(sc, n) == {x \in DOMAIN sc : sc[x].parent = n}

\* the host gives a new node a name no other node has: the name asked for,
\* or that name followed by the first free counter
RECURSIVE FreshFrom(_, _, _)
FreshFrom(sc, name, k) ==
    IF (name \o ToString(k)) \notin DOMAIN sc
    THEN name \o ToString(k)
    ELSE FreshFrom(sc, name, k + 1)

UniqueName(sc, name) == IF name \notin DOMAIN sc THEN name ELSE FreshFrom(sc, name, 1)

\* cmds.objExists(name)
objExists(sc, name) == name \in DOMAIN sc

\* cmds.ls(pattern, type=type)
lsType(sc, pattern, type) ==
    {n \in DOMAIN sc : sc[n].type = type /\ Glob(pattern, n)}

\* cmds.ls(name1, name2, ...)
lsNames(sc, names) == {n \in DOMAIN sc : n \in names}

\* cmds.ls(sl=True, dag=True, leaf=True, noIntermediate=True,
\*         objectsOnly=True, shapes=True): the leaf shapes below the
\* selected nodes, in selection order
LeafShapes(sc, n) ==
    {x \in DOMAIN sc : /\ IsUnder(sc, x, n)
                       /\ sc[x].type \in ShapeTypes
                       /\ Children(sc, x) = {}}

RECURSIVE SetToSeq(_)
SetToSeq(S) ==
    IF S = {} THEN <<>>
    ELSE LET x == CHOOSE y \in S : TRUE IN <<x>> \o SetToSeq(S \ {x})

RECURSIVE lsSelectedShapes(_, _)
lsSelectedShapes(sc, sel) ==
    IF sel = <<>> THEN <<>>
    ELSE LET rest == lsSelectedShapes(sc, Tail(sel))
             here == SetToSeq({x \in LeafShapes(sc, Head(sel)) :
                                  \A k \in 1..Len(rest) : rest[k] # x})
         IN here \o rest

\* [node for node in selected_meshes if cmds.nodeType(node) in {...}]
RECURSIVE FilterMeshes(_, _)
FilterMeshes(sc, nodes) ==
    IF nodes = <<>> THEN <<>>
    ELSE IF sc[Head(nodes)].type \in {"mesh", "nurbsSurface"}
         THEN <<Head(nodes)>> \o FilterMeshes(sc, Tail(nodes))
         ELSE FilterMeshes(sc, Tail(nodes))

\* cmds.delete(nodes): the nodes go with everything below them in the DAG;
\* a blendShape node goes with the geometry it deforms and a constraint
\* with its driver; an empty list deletes nothing
delete(sc, nodes) ==
    LET dag == {x \in DOMAIN sc : UnderAny(sc, x, nodes)}
        bs == {x \in DOMAIN sc : sc[x].type = "blendShape" /\ sc[x].geo \in dag}
        gone == dag \cup bs
        kept == DOMAIN sc \ gone
    IN [x \in kept |->
          IF sc[x].driver \in gone THEN [sc[x] EXCEPT !.driver = NoNode]
          ELSE sc[x]]

\* the selection after a deletion: deleted nodes leave it
RECURSIVE Surviving(_, _)
Surviving(sc, sel) ==
    IF sel = <<>> THEN <<>>
    ELSE IF Head(sel) \in DOMAIN sc
         THEN <<Head(sel)>> \o Surviving(sc, Tail(sel))
         ELSE Surviving(sc, Tail(sel))

AddNode(sc, name, rec) == (name :> rec) @@ sc

(***************************************************************************)
(* Host commands.  A handler runs on a machine record: the host's state    *)
(*   scene, sel (active selection), windows (named UI windows), ret (the   *)
(*   name the last creating command returned);                             *)
(* the arguments and locals of duplicate_and_deform, under their names;    *)
(* and the bookkeeping of the run: outcome ("running", then how the run    *)
(*   ended), trace (the steps taken), created (the duplicate groups,       *)
(*   duplicated meshes and control circles made), placed (the placement    *)
(*   of each control circle).                                              *)
(* A statement is an operator from machine to machine.  Once the run has   *)
(* ended - a return, or an exception raised by a host command - the        *)
(* statements that follow in the source do nothing.                        *)
(* Creating commands leave the new node selected, as does cmds.parent.     *)
(***************************************************************************)
Machine(sc, sel, wins) ==
    [scene |-> sc, sel |-> sel, windows |-> wins, ret |-> NoNode,
     num_copies |-> 0, scale_factor |-> 0, showcase_setup |-> FALSE,
     initial_selection |-> <<>>, selected_meshes |-> <<>>, whd |-> <<>>,
     parent_group |-> NoNode, camera |-> NoNode, group_node |-> NoNode,
     duplicated_mesh |-> NoNode, blend_shape_node |-> NoNode,
     circle_control |-> NoNode,
     outcome |-> "running", trace |-> <<>>, created |-> {}, placed |-> <<>>]

Running(m) == m.outcome = "running"

\* the run ends here: a return statement or an exception
Halt(m, outcome) == IF Running(m) THEN [m EXCEPT !.outcome = outcome] ELSE m

Log(m, step) == IF Running(m) THEN [m EXCEPT !.trace = Append(@, step)] ELSE m

\* local = <the value the last command returned>
Keep(m, local) == IF Running(m) THEN [m EXCEPT ![local] = m.ret] ELSE m

Created(m, nodes) == IF Running(m) THEN [m EXCEPT !.created = @ \cup nodes] ELSE m

\* cmds.group(empty=True, name=name)
group(m, name) ==
    LET n == UniqueName(m.scene, name)
    IN IF ~Running(m) THEN m
       ELSE [m EXCEPT !.scene = AddNode(@, n, Node("transform", NoNode)),
                      !.sel = <<n>>, !.ret = n]

\* cmds.circle(name=name, ...)[0]; a node the tool creates is represented
\* by its transform alone
circle(m, name) ==
    LET n == UniqueName(m.scene, name)
    IN IF ~Running(m) THEN m
       ELSE [m EXCEPT !.scene = AddNode(@, n, Node("transform", NoNode)),
                      !.sel = <<n>>, !.ret = n]

\* cmds.camera(name=name)[0]
camera(m, name) ==
    LET n == UniqueName(m.scene, name)
    IN IF ~Running(m) THEN m
       ELSE [m EXCEPT !.scene = AddNode(@, n, Node("transform", NoNode)),
                      !.sel = <<n>>, !.ret = n]

\* cmds.duplicate(mesh)[0]: duplicating a shape duplicates its transform,
\* under the same parent and under a fresh name; the command raises when
\* the node does not exist
duplicate(m, mesh) ==
    IF ~Running(m) THEN m
    ELSE IF mesh \notin DOMAIN m.scene \/ m.scene[mesh].parent = NoNode
    THEN Halt(m, "raised")
    ELSE LET sc == m.scene
             p == sc[mesh].parent
             n == UniqueName(sc, p)
         IN [m EXCEPT !.scene = AddNode(sc, n, sc[p]), !.sel = <<n>>, !.ret = n]

\* cmds.rename(old, new): the node takes the new name (made unique) and
\* every reference to it follows
rename(m, old, new) ==
    LET sc == m.scene
        n == UniqueName(sc, new)
        To(x) == IF x = old THEN n ELSE x
        Ref(r) == IF r.parent = old \/ r.target = old \/ r.geo = old \/ r.driver = old
                  THEN [r EXCEPT !.parent = To(@), !.target = To(@),
                                 !.geo = To(@), !.driver = To(@)]
                  ELSE r
    IN IF ~Running(m) THEN m
       ELSE [m EXCEPT !.scene = (n :> sc[old]) @@
                                   [y \in DOMAIN sc \ {old} |-> Ref(sc[y])],
                      !.sel = <<n>>, !.ret = n]

\* cmds.blendShape(target, base, name=name, frontOfChain=True)[0]: the new
\* deformer morphs base toward target; the target weight starts at 0
blendShape(m, target, base, name) ==
    LET n == UniqueName(m.scene, name)
    IN IF ~Running(m) THEN m
       ELSE [m EXCEPT !.scene = AddNode(@, n, [Node("blendShape", NoNode) EXCEPT
                                                !.target = target, !.geo = base]),
                      !.ret = n]

\* cmds.setAttr(blend_shape_node + "." + alias, v): the weight attribute is
\* aliased by the target's name without its namespace; the command raises
\* when the node has no such attribute
setWeight(m, bs, alias, v) ==
    IF ~Running(m) THEN m
    ELSE IF SplitLast(m.scene[bs].target) = alias
    THEN [m EXCEPT !.scene[bs].w = v]
    ELSE Halt(m, "raised")

\* cmds.parent(child, newParent)
parent(m, child, newParent) ==
    IF ~Running(m) THEN m
    ELSE [m EXCEPT !.scene[child].parent = newParent, !.sel = <<child>>]

\* cmds.scale(f, f, f, node), f in hundredths
scale(m, f, node) ==
    IF ~Running(m) THEN m ELSE [m EXCEPT !.scene[node].s = <<f, f, f>>]

\* cmds.rotate(x, y, z, node)
rotate(m, xyz, node) ==
    IF ~Running(m) THEN m ELSE [m EXCEPT !.scene[node].r = xyz]

\* cmds.move(x, y, z, node), in tenths
move(m, xyz, node) ==
    IF ~Running(m) THEN m ELSE [m EXCEPT !.scene[node].t = xyz]

\* cmds.parentConstraint(driver, driven); cmds.scaleConstraint(driver, driven)
constrain(m, driver, driven) ==
    IF ~Running(m) THEN m ELSE [m EXCEPT !.scene[driven].driver = driver]

\* cmds.select(nodes): raises when a node does not exist
select(m, nodes) ==
    IF ~Running(m) THEN m
    ELSE IF \A k \in 1..Len(nodes) : nodes[k] \in DOMAIN m.scene
    THEN [m EXCEPT !.sel = nodes]
    ELSE Halt(m, "raised")

\* cmds.delete(nodes), with the selection that is left
deleteNodes(m, nodes) ==
    LET sc == delete(m.scene, nodes)
    IN IF ~Running(m) THEN m
       ELSE [m EXCEPT !.scene = sc, !.sel = Surviving(sc, @)]

\* cmds.window(name, ...): raises when a window of that name exists
window(m, name) ==
    IF ~Running(m) THEN m
    ELSE IF name \in m.windows THEN Halt(m, "raised")
    ELSE [m EXCEPT !.windows = @ \cup {name}]

\* cmds.deleteUI(name, window=True)
deleteUI(m, name) ==
    IF ~Running(m) THEN m ELSE [m EXCEPT !.windows = @ \ {name}]

(***************************************************************************)
(* remove_duplicates                                                       *)
(***************************************************************************)
\* lines 23-26
DeleteMatching(m) ==
    LET all_duplicated_meshes == lsType(m.scene, DupPattern, "transform")
        all_ctrl_circles == lsType(m.scene, CtrlPattern, "transform")
        all_blend_shape_nodes == lsType(m.scene, BsPattern, "blendShape")
    IN deleteNodes(m, all_duplicated_meshes \cup all_ctrl_circles
                        \cup all_blend_shape_nodes)

\* line 27
DeleteGroups(m) ==
    deleteNodes(m, lsNames(m.scene, {ParentGroupName, ShowcaseGroupName}))

\* remove_duplicates without its line 27
remove_duplicates_patterns_only(m) == DeleteMatching(m)

remove_duplicates(m) == DeleteGroups(DeleteMatching(m))

(***************************************************************************)
(* calculate_bounding_box                                                  *)
(***************************************************************************)
Fin(x) == [inf |-> 0, v |-> x]
PosInf == [inf |-> 1, v |-> 0]
NegInf == [inf |-> -1, v |-> 0]
NaN == [inf |-> 2, v |-> 0]

\* min(a, b) and max(a, b) on floats that may be infinite
ExtMin(a, b) ==
    IF a.inf # b.inf THEN (IF a.inf < b.inf THEN a ELSE b)
    ELSE IF a.v <= b.v THEN a ELSE b
ExtMax(a, b) ==
    IF a.inf # b.inf THEN (IF a.inf > b.inf THEN a ELSE b)
    ELSE IF a.v >= b.v THEN a ELSE b

\* a - b
ExtSub(a, b) ==
    IF a.inf = 0 /\ b.inf = 0 THEN Fin(a.v - b.v)
    ELSE IF a.inf # 0 /\ a.inf = b.inf THEN NaN
    ELSE IF a.inf # 0 THEN a
    ELSE [inf |-> 0 - b.inf, v |-> 0]

\* cmds.exactWorldBoundingBox(mesh): xmin ymin zmin xmax ymax zmax
exactWorldBoundingBox(sc, mesh) == sc[mesh].bbox

RECURSIVE BBoxFold(_, _, _)
\* the loop of calculate_bounding_box; acc is <<x_min, y_min, z_min, x_max,
\* y_max, z_max>>
BBoxFold(sc, meshes, acc) ==
    IF meshes = <<>> THEN acc
    ELSE LET bbox == exactWorldBoundingBox(sc, Head(meshes))
         IN BBoxFold(sc, Tail(meshes),
                     <<ExtMin(acc[1], Fin(bbox[1])), ExtMin(acc[2], Fin(bbox[2])),
                       ExtMin(acc[3], Fin(bbox[3])), ExtMax(acc[4], Fin(bbox[4])),
                       ExtMax(acc[5], Fin(bbox[5])), ExtMax(acc[6], Fin(bbox[6]))>>)

\* calculate_bounding_box with a loop that stops after the first mesh
calculate_bounding_box_first_only(sc, meshes) ==
    LET acc == BBoxFold(sc, IF meshes = <<>> THEN meshes ELSE <<Head(meshes)>>,
                        <<PosInf, PosInf, PosInf, NegInf, NegInf, NegInf>>)
    IN <<ExtSub(acc[4], acc[1]), ExtSub(acc[5], acc[2]), ExtSub(acc[6], acc[3])>>

\* returns <<width, height, depth>>
calculate_bounding_box(sc, meshes) ==
    LET acc == BBoxFold(sc, meshes,
                        <<PosInf, PosInf, PosInf, NegInf, NegInf, NegInf>>)
    IN <<ExtSub(acc[4], acc[1]), ExtSub(acc[5], acc[2]), ExtSub(acc[6], acc[3])>>

(***************************************************************************)
(* duplicate_and_deform, statement by statement                            *)
(***************************************************************************)
\* a finite float as a number (the extents of a non-empty list of meshes)
Num(e) == e.v

\* lines 54-56
ReadSelection(m) ==
    Log([m EXCEPT !.initial_selection = m.sel,
                  !.selected_meshes =
                      FilterMeshes(m.scene, lsSelectedShapes(m.scene, m.sel))],
        "validate_selection")

\* lines 59-61
CheckSelection(m) ==
    IF m.selected_meshes = <<>> THEN Halt(Log(m, "warning"), "no_selection")
    ELSE m

\* line 63
MeasureSelection(m) ==
    IF ~Running(m) THEN m
    ELSE Log([m EXCEPT !.whd = calculate_bounding_box(m.scene, m.selected_meshes)],
             "bounding_box")

\* lines 66-69; reply is the answer given to the question
ConfirmLarge(m, reply) ==
    IF m.num_copies > ConfirmThreshold
    THEN (IF reply = "No" THEN Halt(Log(m, "question"), "declined")
          ELSE Log(m, "question"))
    ELSE m

\* lines 71-72
ClearExisting(m) ==
    IF Running(m) /\ objExists(m.scene, ParentGroupName)
    THEN Log(remove_duplicates(m), "remove_duplicates")
    ELSE m

\* line 75
CreateParentGroup(m) ==
    Log(Keep(group(m, ParentGroupName), "parent_group"), "parent_group")

\* line 79
DeleteCamera(m) == deleteNodes(m, lsNames(m.scene, {CameraName}))

\* lines 80-81
CreateCamera(m) == Keep(camera(m, CameraName), "camera")
MoveCamera(m) ==
    Log(move(m, <<0, 5 * Num(m.whd[2]), 60 * Num(m.whd[3])>>, m.camera),
        "camera")

\* lines 82-84
CreateShowcaseGroup(m) ==
    Log(parent(parent(group(m, ShowcaseGroupName), m.camera, ShowcaseGroupName),
               m.parent_group, m.camera),
        "showcase_group")

\* lines 87-102
CreateShowcaseWindow(m) ==
    Log(window(IF "newWindow" \in m.windows THEN deleteUI(m, "newWindow") ELSE m,
               "Showcase"),
        "showcase_window")

\* lines 108 and 153
SelectInitial(m) == select(m, m.initial_selection)

\* lines 78-111
ShowcaseSetup(m) ==
    IF m.showcase_setup
    THEN SelectInitial(CreateShowcaseWindow(CreateShowcaseGroup(
             MoveCamera(CreateCamera(DeleteCamera(m))))))
    ELSE m

\* line 116
CreateGroup(m, i) ==
    Log(Keep(group(m, GroupName(i)), "group_node"), "duplicate_group")

\* line 119
DuplicateSource(m, mesh) == Keep(duplicate(m, mesh), "duplicated_mesh")

\* lines 120-121
RenameDuplicate(m, mesh, i) ==
    Log(Keep(rename(m, m.duplicated_mesh, DupName(SplitLast(mesh), i)),
             "duplicated_mesh"),
        "duplicate")

\* line 122
CreateBlendShape(m, mesh) ==
    Keep(blendShape(m, mesh, m.duplicated_mesh, BlendName(m.group_node)),
         "blend_shape_node")

\* the loop body without its line 123
SetTargetWeight_skipped(m, mesh) == Log(m, "blend_shape")

\* line 123
SetTargetWeight(m, mesh) ==
    Log(setWeight(m, m.blend_shape_node, SplitLast(mesh), 1), "blend_shape")

\* line 124
ParentDuplicate(m) ==
    Created(parent(m, m.duplicated_mesh, m.group_node), {m.duplicated_mesh})

\* the body of "for mesh in selected_meshes", lines 119-124
DuplicateMesh(m, mesh, i) ==
    ParentDuplicate(SetTargetWeight(CreateBlendShape(
        RenameDuplicate(DuplicateSource(m, mesh), mesh, i), mesh), mesh))

RECURSIVE MeshLoop(_, _, _)
\* "for mesh in selected_meshes", line 118
MeshLoop(m, meshes, i) ==
    IF meshes = <<>> \/ ~Running(m) THEN m
    ELSE MeshLoop(DuplicateMesh(m, Head(meshes), i), Tail(meshes), i)

\* line 126
CreateCircle(m) == Keep(circle(m, CtrlName(m.group_node)), "circle_control")

\* line 127
ScaleCircle(m) == scale(m, m.scale_factor, m.circle_control)

\* offset_positions (in tenths) and rotation_values of the 4-copy layout
offset_positions == <<<<10, 7>>, <<-10, 7>>, <<10, 0>>, <<-10, 0>>>>
rotation_values == <<<<0, 90, 0>>, <<0, -90, 0>>, <<0, 0, 0>>, <<0, 180, 0>>>>

\* line 135 testing num_copies == 4 alone
PlaceControl_any_four(showcase_setup, num_copies, i, width, height, depth) ==
    IF num_copies = ShowcaseCopies
    THEN [table |-> TRUE, i |-> i, r |-> rotation_values[i + 1],
          t |-> <<offset_positions[i + 1][1] * width,
                  offset_positions[i + 1][2] * height, -20 * depth>>]
    ELSE [table |-> FALSE, i |-> i, r |-> Zero3,
          t |-> <<11 * width * (i + 1), 0, 0>>]

\* lines 135-144: whether the tables are read for control circle i, the
\* rotation and the position it is given
PlaceControl(showcase_setup, num_copies, i, width, height, depth) ==
    IF showcase_setup /\ num_copies = ShowcaseCopies
    THEN [table |-> TRUE, i |-> i, r |-> rotation_values[i + 1],
          t |-> <<offset_positions[i + 1][1] * width,
                  offset_positions[i + 1][2] * height, -20 * depth>>]
    ELSE [table |-> FALSE, i |-> i, r |-> Zero3,
          t |-> <<11 * width * (i + 1), 0, 0>>]

Placed(m, pl) ==
    IF Running(m)
    THEN [m EXCEPT !.placed = Append(@, pl @@ [circle |-> m.circle_control])]
    ELSE m

\* lines 135-144 on the scene
PlaceCircle(m, i) ==
    LET pl == PlaceControl(m.showcase_setup, m.num_copies, i,
                           Num(m.whd[1]), Num(m.whd[2]), Num(m.whd[3]))
    IN Placed(move(IF pl.table THEN rotate(m, pl.r, m.circle_control) ELSE m,
                   pl.t, m.circle_control),
              pl)

\* lines 147-148
ConstrainGroup(m) == constrain(m, m.circle_control, m.group_node)

\* lines 149-150
ParentToGroup(m) ==
    Log(Created(parent(parent(m, m.circle_control, m.parent_group),
                       m.group_node, m.parent_group),
                {m.group_node, m.circle_control}),
        "control_circle")

\* the body of "for i in range(num_copies)", lines 116-150
OneCopy(m, i) ==
    ParentToGroup(ConstrainGroup(PlaceCircle(ScaleCircle(CreateCircle(
        MeshLoop(CreateGroup(m, i), m.selected_meshes, i))), i)))

RECURSIVE CopyLoop(_, _)
\* "for i in range(num_copies)", line 115
CopyLoop(m, i) ==
    IF i >= m.num_copies \/ ~Running(m) THEN m
    ELSE CopyLoop(OneCopy(m, i), i + 1)

\* line 153
RestoreSelection(m) == Log(SelectInitial(m), "restore_selection")

\* lines 74-153 with the showcase block moved below the loop
BuildScene_showcase_last(m) ==
    RestoreSelection(ShowcaseSetup(CopyLoop(CreateParentGroup(m), 0)))

\* lines 74-153: parent group, showcase rig, duplicate loop, selection
BuildScene(m) ==
    RestoreSelection(CopyLoop(ShowcaseSetup(CreateParentGroup(m)), 0))

\* the end of the function body
Return(m) == Halt(m, "done")

\* duplicate_and_deform(num_copies, scale_factor, showcase_setup) on the
\* host state m0; reply is the answer to the confirmation question, should
\* it be asked
duplicate_and_deform(m0, num_copies, scale_factor, showcase_setup, reply) ==
    Return(BuildScene(ClearExisting(ConfirmLarge(MeasureSelection(CheckSelection(
        ReadSelection([m0 EXCEPT !.num_copies = num_copies,
                                 !.scale_factor = scale_factor,
                                 !.showcase_setup = showcase_setup]))),
        reply))))

(***************************************************************************)
(* MainWindow                                                              *)
(***************************************************************************)
\* scale_factor = value / 50.0, in hundredths
SliderScale(value) == (value * 100) \div SliderDivisor

\* on_scale_changed(value), on the scene
on_scale_changed(sc, value) ==
    LET scale_factor == SliderScale(value)
        all_ctrl_circles == lsType(sc, CtrlPattern, "transform")
    IN [x \in DOMAIN sc |->
          IF x \in all_ctrl_circles
          THEN [sc[x] EXCEPT !.s = <<scale_factor, scale_factor, scale_factor>>]
          ELSE sc[x]]

\* QSlider.setValue(scale_factor * 50): the float is truncated to an int
\* and bound to [minimum, maximum]
SliderValueFor(scale_factor) ==
    LET v == (scale_factor * SliderDivisor) \div 100
    IN IF v < SliderMin THEN SliderMin ELSE IF v > SliderMax THEN SliderMax ELSE v

(***************************************************************************)
(* The user's scene and the user's inputs                                  *)
(***************************************************************************)
Cube == "pCube1"
CubeShape == "pCubeShape1"
Sphere == "char:nurbsSphere1"
SphereShape == "char:nurbsSphereShape1"
Locator == "locator1"
LocatorShape == "locatorShape1"

SourceNodes == {Cube, CubeShape, Sphere, SphereShape, Locator, LocatorShape}

SourceScene(cubeBox, sphereBox) ==
    LET xf == Node("transform", NoNode)
    IN (Cube :> xf) @@ (Sphere :> xf) @@ (Locator :> xf)
       @@ (CubeShape :> [Node("mesh", Cube) EXCEPT !.bbox = cubeBox])
       @@ (SphereShape :> [Node("nurbsSurface", Sphere) EXCEPT !.bbox = sphereBox])
       @@ (LocatorShape :> Node("locator", Locator))

CubeBox == <<-1, -1, -1, 1, 1, 1>>
SphereBox == <<3, 0, -2, 5, 2, 0>>

SelectionChoices == {<<Cube>>, <<Cube, Sphere>>, <<Locator>>}
CopyChoices == {0, 1, ShowcaseCopies, LargeCopies}
ScaleChoices == {100}
SliderChoices == {SliderMin, SliderMax}

\* the record kept of the last handler run: the arguments, locals, steps
\* and outcome of duplicate_and_deform, or whether Delete removed a node
NoCall ==
    [outcome |-> "none", num_copies |-> 0, scale_factor |-> 0,
     showcase_setup |-> FALSE, initial_selection |-> <<>>,
     selected_meshes |-> <<>>, whd |-> <<>>, trace |-> <<>>, placed |-> <<>>]

CallRecord(m) ==
    [outcome |-> m.outcome, num_copies |-> m.num_copies,
     scale_factor |-> m.scale_factor, showcase_setup |-> m.showcase_setup,
     initial_selection |-> m.initial_selection,
     selected_meshes |-> m.selected_meshes, whd |-> m.whd,
     trace |-> m.trace, placed |-> m.placed]

InitUI ==
    /\ selection = <<>>
    /\ windows = {}
    /\ num_copies_field = 1
    /\ num_copies_enabled = TRUE
    /\ scale_field = 100
    /\ showcase_checkbox = FALSE
    /\ scale_slider = SliderInit
    /\ lastOp = "idle"
    /\ call = NoCall
    /\ lastSuccess = {}

Init ==
    /\ scene = SourceScene(CubeBox, SphereBox)
    /\ checkedIsInt \in BOOLEAN
    /\ InitUI

\* on_checkbox_state_changed(state): the user toggles the checkbox; state
\* is the int 2 when checked; whether 2 == QtCore.Qt.Checked depends on the
\* binding's enum type (checkedIsInt)
on_checkbox_state_changed ==
    LET checked == ~showcase_checkbox
    IN /\ showcase_checkbox' = checked
       /\ IF checked /\ checkedIsInt
          THEN /\ num_copies_field' = ShowcaseCopies
               /\ num_copies_enabled' = FALSE
               /\ scale_field' = 50
          ELSE /\ num_copies_enabled' = TRUE
               /\ UNCHANGED <<num_copies_field, scale_field>>
       /\ lastOp' = "idle"
       /\ call' = NoCall
       /\ UNCHANGED <<scene, selection, windows, scale_slider, checkedIsInt,
                      lastSuccess>>

\* the user selects objects of the scene
UserSelects ==
    \E sel \in SelectionChoices :
        /\ sel # selection
        /\ selection' = sel
        /\ lastOp' = "idle"
        /\ call' = NoCall
        /\ UNCHANGED <<scene, windows, num_copies_field, num_copies_enabled,
                       scale_field, showcase_checkbox, scale_slider,
                       checkedIsInt, lastSuccess>>

\* the user types a number of copies; a disabled field takes no input
UserTypesCopies ==
    \E n \in CopyChoices :
        /\ num_copies_enabled
        /\ n # num_copies_field
        /\ num_copies_field' = n
        /\ lastOp' = "idle"
        /\ call' = NoCall
        /\ UNCHANGED <<scene, selection, windows, num_copies_enabled,
                       scale_field, showcase_checkbox, scale_slider,
                       checkedIsInt, lastSuccess>>

\* the user types a scale factor
UserTypesScale ==
    \E f \in ScaleChoices :
        /\ f # scale_field
        /\ scale_field' = f
        /\ lastOp' = "idle"
        /\ call' = NoCall
        /\ UNCHANGED <<scene, selection, windows, num_copies_field,
                       num_copies_enabled, showcase_checkbox, scale_slider,
                       checkedIsInt, lastSuccess>>

\* the answers to the confirmation question
Replies == {"Yes", "No"}

\* line 231: QSlider.setValue emits valueChanged, which runs
\* on_scale_changed, when the value is a new one
SetSliderValue(sc, old, value) ==
    IF value # old THEN on_scale_changed(sc, value) ELSE sc

\* what the click leaves behind, m being the machine after line 233
Returned(m) ==
    /\ scale_slider' = SliderValueFor(scale_field)
    /\ scene' = m.scene
    /\ selection' = m.sel
    /\ windows' = m.windows
    /\ lastOp' = "duplicate"
    /\ call' = CallRecord(m)
    /\ lastSuccess' = IF m.outcome = "done" THEN m.created ELSE lastSuccess
    /\ UNCHANGED <<num_copies_field, scale_field, num_copies_enabled,
                   showcase_checkbox, checkedIsInt>>

\* on_duplicate_clicked; reply is the user's answer to the confirmation
\* question, should it be asked
DuplicateClick(reply) ==
    Returned(duplicate_and_deform(
        Machine(SetSliderValue(scene, scale_slider, SliderValueFor(scale_field)),
                selection, windows),
        num_copies_field, scale_field, showcase_checkbox, reply))

on_duplicate_clicked ==
    \E reply \in IF num_copies_field > ConfirmThreshold THEN Replies ELSE {"Yes"} :
        DuplicateClick(reply)

\* on_delete_clicked
on_delete_clicked ==
    LET m == remove_duplicates(Machine(scene, selection, windows))
    IN /\ scene' = m.scene
       /\ selection' = m.sel
       /\ lastOp' = "delete"
       /\ call' = [NoCall EXCEPT !.outcome = IF DOMAIN m.scene # DOMAIN scene
                                              THEN "removed" ELSE "nothing"]
       /\ lastSuccess' = {}
       /\ UNCHANGED <<windows, num_copies_field, num_copies_enabled,
                      scale_field, showcase_checkbox, scale_slider,
                      checkedIsInt>>

\* the user drags the slider: valueChanged -> on_scale_changed(value)
SliderMoved ==
    \E value \in SliderChoices :
        /\ value # scale_slider
        /\ scale_slider' = value
        /\ scene' = on_scale_changed(scene, value)
        /\ lastOp' = "slider"
        /\ call' = NoCall
        /\ UNCHANGED <<selection, windows, num_copies_field,
                       num_copies_enabled, scale_field, showcase_checkbox,
                       checkedIsInt, lastSuccess>>

\* the user closes the showcase window, which deletes it
CloseShowcaseWindow ==
    /\ "Showcase" \in windows
    /\ windows' = windows \ {"Showcase"}
    /\ lastOp' = "idle"
    /\ call' = NoCall
    /\ UNCHANGED <<scene, selection, num_copies_field, num_copies_enabled,
                   scale_field, showcase_checkbox, scale_slider, checkedIsInt,
                   lastSuccess>>

Next ==
    \/ UserSelects
    \/ UserTypesCopies
    \/ UserTypesScale
    \/ on_checkbox_state_changed
    \/ on_duplicate_clicked
    \/ on_delete_clicked
    \/ SliderMoved
    \/ CloseShowcaseWindow

Spec == Init /\ [][Next]_vars

(***************************************************************************)
(* The bounding-box specification: the x extents of the two source shapes  *)
(* range over every interval of -MaxCoord..MaxCoord, the other extents are *)
(* those of CubeBox and SphereBox; the user selects, duplicates, deletes.  *)
(***************************************************************************)
Coords == (0 - MaxCoord)..MaxCoord

XBoxes(base) ==
    {[base EXCEPT ![1] = p[1], ![4] = p[2]] :
        p \in {q \in Coords \X Coords : q[1] <= q[2]}}

InitBBox ==
    /\ \E cubeBox \in XBoxes(CubeBox), sphereBox \in XBoxes(SphereBox) :
           scene = SourceScene(cubeBox, sphereBox)
    /\ checkedIsInt = FALSE
    /\ InitUI

NextBBox ==
    \/ UserSelects
    \/ on_duplicate_clicked
    \/ on_delete_clicked

SpecBBox == InitBBox /\ [][NextBBox]_vars

(***************************************************************************)
(* Vocabulary of the properties                                            *)
(***************************************************************************)
\* the last handler run was duplicate_and_deform and it ran to its end
Done == lastOp = "duplicate" /\ call.outcome = "done"

\* the positions of a step in the steps of the last call
StepsAt(step) == {k \in 1..Len(call.trace) : call.trace[k] = step}
HasStep(step) == StepsAt(step) # {}

LoopSteps == {"duplicate_group", "duplicate", "blend_shape", "control_circle"}
ShowcaseSteps == {"camera", "showcase_group", "showcase_window"}
LoopAt == UNION {StepsAt(step) : step \in LoopSteps}
ShowcaseAt == UNION {StepsAt(step) : step \in ShowcaseSteps}

\* the nodes of the scene by the names the tool gives them
GroupPattern == Split("BB_Duplicate_Mesh_*", "*")
MeshPattern == Split("dup_*", "*")
TopGroupPattern == Split("BB_Duplicates_Grp*", "*")
DuplicateGroups ==
    {x \in DOMAIN scene : /\ scene[x].type = "transform"
                          /\ Glob(GroupPattern, x)
                          /\ ~Glob(CtrlPattern, x)}
ControlCircles ==
    {x \in DOMAIN scene : scene[x].type = "transform" /\ Glob(CtrlPattern, x)}
DuplicatedMeshes ==
    {x \in DOMAIN scene : scene[x].type = "transform" /\ Glob(MeshPattern, x)}
BlendShapes == {x \in DOMAIN scene : scene[x].type = "blendShape"}
TopGroups ==
    {x \in DOMAIN scene : scene[x].type = "transform" /\ Glob(TopGroupPattern, x)}

\* the blend-shape deformers of a duplicated mesh
DeformersOf(d) == {b \in BlendShapes : scene[b].geo = d}

MaxOf(S) == CHOOSE x \in S : \A y \in S : y <= x
MinOf(S) == CHOOSE x \in S : \A y \in S : x <= y

(***************************************************************************)
(* C1                                                                      *)
(***************************************************************************)
\* C1: when a call that passed both guards returns, the scene holds exactly
\* the groups BB_Duplicate_Mesh_01 .. BB_Duplicate_Mesh_N; group i holds
\* exactly one duplicate per selected source mesh and nothing else; every
\* duplicate has exactly one blend-shape deformer, whose target is its
\* source mesh and whose weight is 1; and there are exactly N control
\* circles, circle i driving group i.
C1_CopiesBuilt ==
    Done =>
      LET N == call.num_copies
          meshes == call.selected_meshes
          M == Len(meshes)
      IN /\ M >= 1
         /\ DuplicateGroups = {GroupName(i) : i \in 0..(N - 1)}
         /\ Cardinality(DuplicateGroups) = N
         /\ \A i \in 0..(N - 1) :
              LET g == GroupName(i)
                  held == Children(scene, g)
              IN /\ Cardinality(held) = M
                 /\ held = {DupName(SplitLast(meshes[k]), i) : k \in 1..M}
                 /\ \A k \in 1..M :
                      LET d == DupName(SplitLast(meshes[k]), i)
                      IN /\ Cardinality(DeformersOf(d)) = 1
                         /\ \A b \in DeformersOf(d) :
                              scene[b].target = meshes[k] /\ scene[b].w = 1
                 /\ scene[g].driver = CtrlName(g)
         /\ DuplicatedMeshes = {DupName(SplitLast(meshes[k]), i) :
                                   k \in 1..M, i \in 0..(N - 1)}
         /\ Cardinality(BlendShapes) = N * M
         /\ ControlCircles = {CtrlName(GroupName(i)) : i \in 0..(N - 1)}
         /\ Cardinality(ControlCircles) = N

\* a call with several copies of two source meshes has returned
C1_Witness ==
    /\ Done
    /\ call.num_copies = ShowcaseCopies
    /\ Len(call.selected_meshes) = 2
    /\ Cardinality(BlendShapes) = 2 * ShowcaseCopies

(***************************************************************************)
(* C2                                                                      *)
(***************************************************************************)
\* C2: a Duplicate click that a guard rejects (no mesh or nurbsSurface
\* selected, or more than 10 copies and the answer No) leaves the scene
\* and the selection as they were before the click.
C2_RejectedClickChangesNothing ==
    [][(lastOp' = "duplicate" /\ call'.outcome \in {"no_selection", "declined"})
          => (scene' = scene /\ selection' = selection)]_vars

\* a rejected click on a scene that holds control circles
C2_Witness ==
    /\ lastOp = "duplicate"
    /\ call.outcome \in {"no_selection", "declined"}
    /\ ControlCircles # {}

(***************************************************************************)
(* C3                                                                      *)
(***************************************************************************)
\* C3: after Delete (remove_duplicates) no node that the tool created is
\* left in the scene - no duplicated mesh, control circle, blend shape,
\* duplicate group, BB_Duplicates_Grp or BB_Duplicate_Showcase_Grp - and
\* the source objects are there as the user made them.
C3_DeleteRemovesAll ==
    lastOp = "delete" =>
      /\ DuplicatedMeshes = {}
      /\ ControlCircles = {}
      /\ BlendShapes = {}
      /\ DuplicateGroups = {}
      /\ ~objExists(scene, ParentGroupName)
      /\ ~objExists(scene, ShowcaseGroupName)
      /\ DOMAIN scene = SourceNodes
      /\ scene = SourceScene(CubeBox, SphereBox)

\* Delete has removed nodes
C3_Witness == lastOp = "delete" /\ call.outcome = "removed"

C5_OnlyLatestDuplicates ==
    /\ Cardinality(TopGroups) <= 1
    /\ DuplicateGroups \cup DuplicatedMeshes \cup ControlCircles = lastSuccess
    /\ \A x \in DuplicateGroups \cup ControlCircles :
         scene[x].parent = ParentGroupName

\* a call was made on a scene that held duplicates and did not succeed
C5_Witness ==
    /\ lastOp = "duplicate"
    /\ call.outcome = "raised"
    /\ lastSuccess # {}

(***************************************************************************)
(* C6                                                                      *)
(***************************************************************************)
\* C6: calculate_bounding_box is called exactly when the list of selected
\* meshes is not empty, and then, on each axis, the value it returns is
\* finite and equals the largest maximum minus the smallest minimum of the
\* meshes' world bounding boxes, which is at least the extent of every
\* single mesh and at least 0.
C6_BoundingBoxIsUnion ==
    lastOp = "duplicate" =>
      LET meshes == call.selected_meshes
          box(k) == scene[meshes[k]].bbox
      IN /\ HasStep("bounding_box") <=> meshes # <<>>
         /\ meshes = <<>> => call.whd = <<>>
         /\ meshes # <<>> =>
              /\ Len(call.whd) = 3
              /\ \A axis \in 1..3 :
                   LET hi == MaxOf({box(k)[axis + 3] : k \in 1..Len(meshes)})
                       lo == MinOf({box(k)[axis] : k \in 1..Len(meshes)})
                   IN /\ call.whd[axis] = [inf |-> 0, v |-> hi - lo]
                      /\ \A k \in 1..Len(meshes) :
                           call.whd[axis].v >= box(k)[axis + 3] - box(k)[axis]
                      /\ call.whd[axis].v >= 0

\* two meshes of which neither spans the width of the union
C6_Witness ==
    /\ Done
    /\ Len(call.selected_meshes) = 2
    /\ \A k \in 1..2 :
         LET b == scene[call.selected_meshes[k]].bbox
         IN call.whd[1].v > b[4] - b[1]

(***************************************************************************)
(* C7                                                                      *)
(***************************************************************************)
\* C7: control circle i of a call (i = 0 .. num_copies-1) is placed from
\* the two 4-entry tables exactly when showcase_setup is true and
\* num_copies is 4; i is then within 0..3 and the circle is rotated by
\* rotation_values[i] and moved to (offset_positions[i][0]*width,
\* offset_positions[i][1]*height, -2*depth); in every other case it is not
\* rotated and is moved to (1.1*width*(i+1), 0, 0), so that for width > 0
\* the x positions increase strictly and consecutive circles are more than
\* one width apart.  Positions are in tenths of a unit.
C7_Placement ==
    Done =>
      LET width == call.whd[1].v
          height == call.whd[2].v
          depth == call.whd[3].v
          byTable == call.showcase_setup /\ call.num_copies = 4
          X(k) == scene[call.placed[k].circle].t[1]
      IN /\ Len(call.placed) = call.num_copies
         /\ \A k \in 1..Len(call.placed) :
              LET pl == call.placed[k]
                  c == scene[pl.circle]
              IN /\ pl.i = k - 1
                 /\ pl.circle = CtrlName(GroupName(pl.i))
                 /\ pl.table <=> byTable
                 /\ byTable =>
                      /\ pl.i \in 0..3
                      /\ c.r = <<<<0, 90, 0>>, <<0, -90, 0>>,
                                 <<0, 0, 0>>, <<0, 180, 0>>>>[k]
                      /\ c.t = <<<<10, -10, 10, -10>>[k] * width,
                                 <<7, 7, 0, 0>>[k] * height,
                                 -20 * depth>>
                 /\ ~byTable =>
                      /\ c.r = <<0, 0, 0>>
                      /\ c.t = <<11 * width * k, 0, 0>>
                      /\ (width > 0 /\ k > 1) => X(k) - X(k - 1) > 10 * width

\* the four circles of a showcase call were placed from the tables
C7_Witness ==
    /\ Done
    /\ call.showcase_setup
    /\ call.num_copies = 4
    /\ Len(call.placed) = 4
    /\ call.placed[4].table

(***************************************************************************)
(* C8                                                                      *)
(***************************************************************************)
\* C8: after the slider has changed, its value is within 1..100, the scale
\* factor value/50 is within [0.02, 2] (2..200 hundredths) and every
\* control circle of the scene has that factor as its scale on x, y and z.
C8_SliderScale ==
    lastOp = "slider" =>
      /\ scale_slider \in 1..100
      /\ (scale_slider * 100) \div 50 \in 2..200
      /\ \A c \in ControlCircles :
           scene[c].s = <<(scale_slider * 100) \div 50,
                          (scale_slider * 100) \div 50,
                          (scale_slider * 100) \div 50>>

\* the slider has changed on a scene that holds control circles
C8_Witness == lastOp = "slider" /\ ControlCircles # {}

====
